---------------------------- MODULE Spec2Model ----------------------------
(***************************************************************************)
(* Persona Finder (persona_streamlit_app.py): the response parser          *)
(* (parse_llm_response and its helpers, generate_personality_bars) and the *)
(* "Find Persona" button handler around build_persona.                     *)
(*                                                                         *)
(* A Python str is modelled as a sequence of characters; a character is a  *)
(* one-character TLA+ string, except the two non-ASCII glyphs of the       *)
(* source, which are named: BULLET is U+2022 and FILLED is U+25A0.         *)
(***************************************************************************)
EXTENDS Integers, Sequences, FiniteSets, TLC

VARIABLES
    pc,            \* where the button handler is
    profile_url,   \* the text of the URL input
    username,      \* the user name taken from the URL
    fetched,       \* what reading the user's posts and comments gave
    llm_traits,    \* the traits the model's reply reports
    llm_response,  \* the value query_llm returned
    parsed,        \* parsed_data of build_persona
    rendered,      \* the rendered report: "none", "empty" or "text"
    file_written,  \* whether the persona file was written
    result,        \* what build_persona returned
    ui             \* what the page shows

vars == <<pc, profile_url, username, fetched, llm_traits, llm_response, parsed,
          rendered, file_written, result, ui>>

-----------------------------------------------------------------------------
(* Characters *)

BULLET == "bullet"
FILLED == "filled"

\* The characters str.strip() with no argument removes and \s matches, among
\* the characters of the modelled inputs.
Whitespace == {" ", "\n", "\t"}

LowerCase == <<"a", "b", "c", "d", "e", "f", "g", "h", "i", "j", "k", "l", "m",
               "n", "o", "p", "q", "r", "s", "t", "u", "v", "w", "x", "y", "z">>
UpperCase == <<"A", "B", "C", "D", "E", "F", "G", "H", "I", "J", "K", "L", "M",
               "N", "O", "P", "Q", "R", "S", "T", "U", "V", "W", "X", "Y", "Z">>
DigitChars == <<"0", "1", "2", "3", "4", "5", "6", "7", "8", "9">>

Range(f) == {f[i] : i \in DOMAIN f}

upper_char(c) ==
    IF c \in Range(LowerCase)
    THEN UpperCase[CHOOSE i \in DOMAIN LowerCase : LowerCase[i] = c]
    ELSE c
lower_char(c) ==
    IF c \in Range(UpperCase)
    THEN LowerCase[CHOOSE i \in DOMAIN UpperCase : UpperCase[i] = c]
    ELSE c

\* str.upper()
upper(s) == [i \in 1..Len(s) |-> upper_char(s[i])]
\* str.capitalize(): first character upper-cased, the rest lower-cased
capitalize(s) == [i \in 1..Len(s) |-> IF i = 1 THEN upper_char(s[i]) ELSE lower_char(s[i])]

-----------------------------------------------------------------------------
(* str methods *)

RECURSIVE lstrip(_, _)
lstrip(s, chars) ==
    IF s # <<>> /\ Head(s) \in chars THEN lstrip(Tail(s), chars) ELSE s

RECURSIVE rstrip(_, _)
rstrip(s, chars) ==
    IF s # <<>> /\ s[Len(s)] \in chars
    THEN rstrip(SubSeq(s, 1, Len(s) - 1), chars)
    ELSE s

\* s.strip(chars): characters of `chars` removed from BOTH ends
strip(s, chars) == rstrip(lstrip(s, chars), chars)

\* whether text has the literal `lit` at position i
StartsAt(text, i, lit) ==
    /\ i >= 1
    /\ i + Len(lit) - 1 <= Len(text)
    /\ SubSeq(text, i, i + Len(lit) - 1) = lit

\* position of the first occurrence of character c in s, 0 when there is none
find_char(s, c) ==
    IF \E i \in 1..Len(s) : s[i] = c
    THEN CHOOSE i \in 1..Len(s) : s[i] = c /\ \A j \in 1..(i - 1) : s[j] # c
    ELSE 0

\* position of the last occurrence of character c in s, 0 when there is none
rfind_char(s, c) ==
    IF \E i \in 1..Len(s) : s[i] = c
    THEN CHOOSE i \in 1..Len(s) : s[i] = c /\ \A j \in (i + 1)..Len(s) : s[j] # c
    ELSE 0

\* str.split(sep) for a non-empty separator: the pieces between the
\* occurrences of sep found from the left, always at least one piece
RECURSIVE split(_, _)
split(s, sep) ==
    LET starts == {i \in 1..Len(s) : StartsAt(s, i, sep)} IN
    IF starts = {} THEN <<s>>
    ELSE LET k == CHOOSE i \in starts : \A j \in starts : i <= j
         IN  <<SubSeq(s, 1, k - 1)>> \o split(SubSeq(s, k + Len(sep), Len(s)), sep)

\* str.splitlines(): [] for "", no last empty piece after a final newline
RECURSIVE splitlines(_)
splitlines(s) ==
    IF s = <<>> THEN <<>>
    ELSE LET k == find_char(s, "\n") IN
         IF k = 0 THEN <<s>>
         ELSE <<SubSeq(s, 1, k - 1)>> \o splitlines(SubSeq(s, k + 1, Len(s)))

\* A plausible slip: line.split("(", 1), which cuts at the FIRST "(".
split_paren(line) ==
    LET k == find_char(line, "(") IN
    IF k = 0 THEN <<line>>
    ELSE <<SubSeq(line, 1, k - 1), SubSeq(line, k + 1, Len(line))>>

\* line.rsplit("(", 1): cut at the last "("
rsplit_paren(line) ==
    LET k == rfind_char(line, "(") IN
    IF k = 0 THEN <<line>>
    ELSE <<SubSeq(line, 1, k - 1), SubSeq(line, k + 1, Len(line))>>

\* c * n for a character c: the empty string when n <= 0
RECURSIVE repeat(_, _)
repeat(c, n) == IF n <= 0 THEN <<>> ELSE <<c>> \o repeat(c, n - 1)

\* format spec :<width, left-justified and padded with spaces
ljust(s, width) == s \o repeat(" ", width - Len(s))

\* int() of a string of decimal digits. A Python int has no width: it is kept
\* as its decimal numeral, the digits without leading zeros.
int(digits) ==
    LET significant == lstrip(digits, {"0"})
    IN  IF significant = <<>> THEN <<"0">> ELSE significant

\* the number a numeral of at most 8 digits stands for
RECURSIVE number(_)
number(numeral) ==
    IF numeral = <<>> THEN 0
    ELSE 10 * number(SubSeq(numeral, 1, Len(numeral) - 1))
         + ((CHOOSE i \in DOMAIN DigitChars : DigitChars[i] = numeral[Len(numeral)]) - 1)

\* A plausible slip: int(x) in place of round(x), for x = num / den >= 0
floor_div(num, den) == num \div den

\* round(num / den) for num >= 0, den > 0: to the nearest integer, a tie to
\* the even one (Python 3's round)
round(num, den) ==
    LET q == num \div den
        r == num % den
    IN  IF 2 * r < den THEN q
        ELSE IF 2 * r > den THEN q + 1
        ELSE IF q % 2 = 0 THEN q ELSE q + 1

-----------------------------------------------------------------------------
(* The fixed vocabulary: the headings of the prompt and the axis pairs *)

Motivations == <<"M", "o", "t", "i", "v", "a", "t", "i", "o", "n", "s">>
Frustrations == <<"F", "r", "u", "s", "t", "r", "a", "t", "i", "o", "n", "s">>
BehavioralHabits == <<"B", "e", "h", "a", "v", "i", "o", "r", "a", "l", " ", "h", "a", "b", "i", "t", "s">>
Personality == <<"P", "e", "r", "s", "o", "n", "a", "l", "i", "t", "y">>
GoalsAndNeeds == <<"G", "o", "a", "l", "s", " ", "a", "n", "d", " ", "n", "e", "e", "d", "s">>
Age == <<"A", "g", "e">>
Occupation == <<"O", "c", "c", "u", "p", "a", "t", "i", "o", "n">>
Status == <<"S", "t", "a", "t", "u", "s">>
Location == <<"L", "o", "c", "a", "t", "i", "o", "n">>
Archetype == <<"A", "r", "c", "h", "e", "t", "y", "p", "e">>
ShortQuote == <<"S", "h", "o", "r", "t", " ", "q", "u", "o", "t", "e">>

Introverted == <<"I", "n", "t", "r", "o", "v", "e", "r", "t", "e", "d">>
Extroverted == <<"E", "x", "t", "r", "o", "v", "e", "r", "t", "e", "d">>
Intuitive == <<"I", "n", "t", "u", "i", "t", "i", "v", "e">>
Sensing == <<"S", "e", "n", "s", "i", "n", "g">>
Feeling == <<"F", "e", "e", "l", "i", "n", "g">>
Thinking == <<"T", "h", "i", "n", "k", "i", "n", "g">>
Perceiving == <<"P", "e", "r", "c", "e", "i", "v", "i", "n", "g">>
Judging == <<"J", "u", "d", "g", "i", "n", "g">>

\* the bar(left, right) calls of the returned list, in order
AxisPairs ==
    << <<Introverted, Extroverted>>, <<Intuitive, Sensing>>,
       <<Feeling, Thinking>>, <<Perceiving, Judging>> >>

-----------------------------------------------------------------------------
(* parse_llm_response and its helpers *)

\* the literal the pattern starts with: \*\*{re.escape(header)}:\*\*
Marker(header) == <<"*", "*">> \o header \o <<":", "*", "*">>

Min(S) == CHOOSE x \in S : \A y \in S : x <= y

\* re.search(rf"\*\*{header}:\*\*\s*(.*?)(?=\n\*\*|$)", text, re.DOTALL), then
\* group(1).strip(), "" without a match. What follows the marker always
\* matches (the lazy group can run to the end of the text, where $ holds), so
\* the match is at the leftmost marker; \s* is greedy and takes the whole
\* whitespace run, newlines included; the lazy group ends at the first position
\* where "\n**" follows, or at $ (the end, or before a final newline).
extract_section(response_text, header) ==
    LET m == Marker(header)
        n == Len(response_text)
        starts == {i \in 1..n : StartsAt(response_text, i, m)}
    IN  IF starts = {} THEN <<>>
        ELSE LET after == Min(starts) + Len(m)
                 j == Min({p \in after..(n + 1) :
                             p = n + 1 \/ response_text[p] \notin Whitespace})
                 k == Min({p \in j..(n + 1) :
                             \/ StartsAt(response_text, p, <<"\n", "*", "*">>)
                             \/ p = n + 1
                             \/ (p = n /\ response_text[p] = "\n")})
             IN  strip(SubSeq(response_text, j, k - 1), Whitespace)

\* the characters of line.strip("•- ")
BulletChars == {BULLET, "-", " "}

\* line.strip("•- ").strip()
strip_bullets(line) == strip(strip(line, BulletChars), Whitespace)

\* [line.strip("•- ").strip() for line in lines if line.strip()]
extract_bullet_list(section_text) ==
    LET lines == splitlines(section_text)
        kept == SelectSeq(lines, LAMBDA line : strip(line, Whitespace) # <<>>)
    IN  [i \in 1..Len(kept) |-> strip_bullets(kept[i])]

\* the body of the loop of extract_key_value_pairs, for one line
key_value_pair(raw_line) ==
    LET line == strip_bullets(raw_line) IN
    IF "(" \in Range(line) /\ ")" \in Range(line)
    THEN LET parts == rsplit_paren(line)
         IN  <<strip(parts[1], Whitespace), strip(parts[2], {")"})>>
    ELSE <<line, <<>>>>

extract_key_value_pairs(section_text) ==
    LET lines == splitlines(section_text)
    IN  [i \in 1..Len(lines) |-> key_value_pair(lines[i])]

\* the number of leading characters of s, from position i on, that are in chars
RECURSIVE run_length(_, _, _)
run_length(s, i, chars) ==
    IF i <= Len(s) /\ s[i] \in chars THEN 1 + run_length(s, i + 1, chars) ELSE 0

\* the characters \w matches, among the characters of the modelled inputs
WordChars == Range(LowerCase) \cup Range(UpperCase) \cup Range(DigitChars) \cup {"_"}

\* re.match(r"(\d+)%\s+(\w+)", s): <<group(1), group(2)>>, or <<>> for no
\* match. Every quantifier is greedy and what follows it cannot start inside
\* its run, so each takes its whole run.
match_trait(s) ==
    LET nd == run_length(s, 1, Range(DigitChars))
        ns == run_length(s, nd + 2, Whitespace)
        nw == run_length(s, nd + 2 + ns, WordChars)
    IN  IF nd >= 1 /\ nd + 1 <= Len(s) /\ s[nd + 1] = "%" /\ ns >= 1 /\ nw >= 1
        THEN <<SubSeq(s, 1, nd), SubSeq(s, nd + 2 + ns, nd + 1 + ns + nw)>>
        ELSE <<>>

\* the loop over traits: scores[label] = percent, a later clause overwriting
\* an earlier one with the same label
RECURSIVE build_scores(_, _)
build_scores(traits, scores) ==
    IF traits = <<>> THEN scores
    ELSE LET match == match_trait(strip(Head(traits), Whitespace)) IN
         IF match # <<>>
         THEN LET percent == int(match[1])
                  label == capitalize(match[2])
              IN  build_scores(Tail(traits),
                     [l \in DOMAIN scores \cup {label} |->
                        IF l = label THEN percent ELSE scores[l]])
         ELSE build_scores(Tail(traits), scores)

bar_length == 20

\* the dict without a key
NoScores == [l \in {} |-> <<>>]

\* scores.get(left.capitalize(), 0)
left_score_of(scores, left) ==
    IF capitalize(left) \in DOMAIN scores THEN scores[capitalize(left)] ELSE <<"0">>

\* The least number of digits for which every score makes left_len exceed
\* sys.maxsize, the largest count a str can be repeated: a score of 21
\* digits is at least 10^20 and left_len at least 2 * 10^19 > 2^63 - 1.
OverflowDigits == 21

\* Whether bar(left, right) raises: "\u25a0" * left_len raises OverflowError
\* when left_len exceeds sys.maxsize (and left_score / 100 raises it when the
\* quotient exceeds the largest float). Scores of 9 to 20 digits, where the
\* outcome depends on the memory of the machine, are not among the inputs.
bar_raises(scores, left) == Len(left_score_of(scores, left)) >= OverflowDigits

\* A plausible slip: right_len computed from the score, not from left_len.
bar_right_len_from_score(scores, left, right) ==
    LET left_score == number(left_score_of(scores, left))
        left_len == round(left_score * bar_length, 100)
        right_len == bar_length - left_score
    IN  ljust(upper(left), 11) \o <<" ", "[">> \o repeat(FILLED, left_len)
          \o repeat("-", right_len) \o <<"]", " ">> \o upper(right)

\* bar(left, right) of generate_personality_bars, when it does not raise:
\* the score of the left label (0 without one),
\* left_len = round(left_score / 100 * bar_length), whose value is that of
\* the exact quotient (left_score / 5 is never within floating-point error of
\* a tie), and right_len = bar_length - left_len.
bar(scores, left, right) ==
    LET left_score == number(left_score_of(scores, left))
        left_len == round(left_score * bar_length, 100)
        right_len == bar_length - left_len
    IN  ljust(upper(left), 11) \o <<" ", "[">> \o repeat(FILLED, left_len)
          \o repeat("-", right_len) \o <<"]", " ">> \o upper(right)

\* the scores dict after the loop over personality_text.split(",")
scores_of(personality_text) == build_scores(split(personality_text, <<",">>), NoScores)

\* whether generate_personality_bars raises: one of its four bar calls does
generate_personality_bars_raises(personality_text) ==
    \E i \in 1..Len(AxisPairs) : bar_raises(scores_of(personality_text), AxisPairs[i][1])

generate_personality_bars(personality_text) ==
    LET scores == scores_of(personality_text)
    IN  [i \in 1..Len(AxisPairs) |-> bar(scores, AxisPairs[i][1], AxisPairs[i][2])]

\* whether parse_llm_response raises: nothing but generate_personality_bars can
parse_llm_response_raises(response_text) ==
    generate_personality_bars_raises(extract_section(response_text, Personality))

\* the record parse_llm_response returns, when it does not raise
parse_llm_response(response_text) ==
    [ motivations |-> extract_key_value_pairs(extract_section(response_text, Motivations)),
      frustrations |-> extract_key_value_pairs(extract_section(response_text, Frustrations)),
      behaviors |-> extract_key_value_pairs(extract_section(response_text, BehavioralHabits)),
      goals |-> extract_bullet_list(extract_section(response_text, GoalsAndNeeds)),
      quote |-> strip(extract_section(response_text, ShortQuote), {"\""}),
      personality_bars |-> generate_personality_bars(extract_section(response_text, Personality)),
      age |-> extract_section(response_text, Age),
      occupation |-> extract_section(response_text, Occupation),
      status |-> extract_section(response_text, Status),
      location |-> extract_section(response_text, Location),
      archetype |-> extract_section(response_text, Archetype) ]

-----------------------------------------------------------------------------
(* The inputs of a run: what the user types, what Reddit returns and what   *)
(* the language model replies                                               *)

MaxChunks == 3
MaxScore == 110
MaxTraits == 3
MaxLines == 2

UserPrefix == <<"h", "t", "t", "p", "s", ":", "/", "/", "w", "w", "w", ".", "r", "e", "d", "d", "i", "t",
                ".", "c", "o", "m", "/", "u", "s", "e", "r", "/">>
Kojied == <<"k", "o", "j", "i", "e", "d">>

ProfileUrls == {UserPrefix \o Kojied \o <<"/">>, Kojied, <<>>}

\* the sequences over S of a length in lo..hi
SeqsOf(S, lo, hi) == UNION {[1..n -> S] : n \in lo..hi}

RECURSIVE concat(_)
concat(pieces) == IF pieces = <<>> THEN <<>> ELSE Head(pieces) \o concat(Tail(pieces))

RECURSIVE join(_, _)
join(pieces, sep) ==
    IF pieces = <<>> THEN <<>>
    ELSE IF Len(pieces) = 1 THEN pieces[1]
    ELSE pieces[1] \o sep \o join(Tail(pieces), sep)

\* str() of a natural number
RECURSIVE str(_)
str(n) == IF n < 10 THEN <<DigitChars[n + 1]>>
          ELSE str(n \div 10) \o <<DigitChars[(n % 10) + 1]>>

\* Replies put together from heading markers and filler, headings missing,
\* repeated or directly followed by another heading included.
Chunks == {Marker(Age), Marker(Occupation), <<"\n">>, <<" ">>, <<"d", "e", "v">>, <<"*", "*">>}
ComposedReplies == {concat(c) : c \in SeqsOf(Chunks, 0, MaxChunks)}

\* A clause of the Personality line as the model writes it: <<score, label>>,
\* written "<score>% <label>", or <<label>>, a clause without a percentage,
\* written as the label alone, or <<digits, label, "digits">>, a score too
\* large for a number of the model, written "<digits>% <label>".
LowerIntroverted == <<"i", "n", "t", "r", "o", "v", "e", "r", "t", "e", "d">>
LowerFeeling == <<"f", "e", "e", "l", "i", "n", "g">>
Calm == <<"C", "a", "l", "m">>

format_trait(t) ==
    IF Len(t) = 1 THEN t[1]
    ELSE IF Len(t) = 2 THEN str(t[1]) \o <<"%", " ">> \o t[2]
    ELSE t[1] \o <<"%", " ">> \o t[2]

PersonalityReply(traits) ==
    Marker(Personality) \o <<" ">>
      \o join([i \in 1..Len(traits) |-> format_trait(traits[i])], <<",", " ">>)

OneTrait == {<< <<n, l>> >> : n \in 0..MaxScore, l \in {Introverted, LowerFeeling}}
SampleTraits == { <<80, Introverted>>, <<30, Intuitive>>, <<103, Perceiving>>,
                  <<5, LowerIntroverted>>, <<Calm>> }
\* a score of 21 digits, 10^20
HugeScore == <<"1">> \o [i \in 1..20 |-> "0"]
HugeTraits ==
    { << <<HugeScore, Introverted, "digits">> >>,
      << <<80, Introverted>>, <<HugeScore, Perceiving, "digits">> >>,
      << <<HugeScore, Introverted, "digits">>, <<80, Introverted>> >>,
      << <<HugeScore, Calm, "digits">>, <<30, Intuitive>> >> }
TraitLists == OneTrait \cup SeqsOf(SampleTraits, 2, MaxTraits) \cup HugeTraits

\* The lines of a list section as the model may write them.
WantsApproval == <<"W", "a", "n", "t", "s", " ", "a", "p", "p", "r", "o", "v", "a", "l">>
FearOfFailure ==
    <<"F", "e", "a", "r", " ", "o", "f", " ", "f", "a", "i", "l", "u", "r", "e", " ", "(", "s", "e", "e", "n",
      " ", "i", "n", " ", "r", "e", "p", "e", "a", "t", "e", "d", " ", "s", "e", "l", "f", "-", "d", "o", "u",
      "b", "t", " ", "(", "n", "o", "t", "e", "d", " ", "t", "w", "i", "c", "e", ")", ")">>
LineSamples ==
    { WantsApproval,
      <<"-", " ">> \o WantsApproval,
      <<BULLET, " ">> \o WantsApproval,
      <<"-", " ", "a", "-">>,
      <<"-">>,
      <<>>,
      FearOfFailure,
      <<"a", ")", " ", "(", "b">>,
      <<"a", " ", "(", "b">> }

\* two bullet lines with a blank line between them
BlankBetween == << <<"-", " ">> \o WantsApproval, <<>>, <<BULLET, " ">> \o WantsApproval >>

ListReply(lines) ==
    Marker(Motivations) \o <<"\n">> \o join(lines, <<"\n">>) \o <<"\n">>
      \o Marker(GoalsAndNeeds) \o <<"\n">> \o join(lines, <<"\n">>)

\* The end-to-end scenario.
EndToEndTraits == << <<80, Introverted>>, <<30, Intuitive>> >>
EndToEndReply ==
    Marker(Age) \o <<" ", "2", "7", "\n">> \o PersonalityReply(EndToEndTraits) \o <<"\n">>
      \o Marker(ShortQuote) \o <<" ", "\"", "J", "u", "s", "t", " ", "v", "i", "b", "i", "n", "g", "\"">>

\* What client.chat.completions.create may return: the content of the
\* message and, for the properties about trait scores, the traits it reports.
LLMReplies ==
    {[content |-> c, traits |-> <<>>] : c \in ComposedReplies}
      \cup {[content |-> PersonalityReply(t), traits |-> t] : t \in TraitLists}
      \cup {[content |-> ListReply(l), traits |-> <<>>] :
               l \in SeqsOf(LineSamples, 1, MaxLines) \cup {BlankBetween}}
      \cup {[content |-> EndToEndReply, traits |-> EndToEndTraits]}

\* str(e) of an exception raised by the call
ErrorMessages == {<<"t", "i", "m", "e", "o", "u", "t">>}

-----------------------------------------------------------------------------
(* query_llm *)

\* The value query_llm returns when the call raises e.
error_sentinel(message) ==
    <<"[", "E", "r", "r", "o", "r", " ", "q", "u", "e", "r", "y", "i", "n", "g", " ", "L", "L", "M", ":", " ">>
      \o message \o <<"]">>

\* The value query_llm returns for a completion.
completion_text(content) == strip(content, Whitespace)

-----------------------------------------------------------------------------
(* The state machine: one press of the "Find Persona" button *)

NotParsed ==
    [ motivations |-> <<>>, frustrations |-> <<>>, behaviors |-> <<>>, goals |-> <<>>,
      quote |-> <<>>, personality_bars |-> <<>>, age |-> <<>>, occupation |-> <<>>,
      status |-> <<>>, location |-> <<>>, archetype |-> <<>>, name |-> <<>> ]

Init ==
    /\ pc = "idle"
    /\ profile_url \in ProfileUrls
    /\ username = <<>>
    /\ fetched = "none"
    /\ llm_traits = <<>>
    /\ llm_response = <<>>
    /\ parsed = NotParsed
    /\ rendered = "none"
    /\ file_written = FALSE
    /\ result = "pending"
    /\ ui = "input"

\* profile_url.rstrip("/").split("/user/")[-1].split("/")[0]
username_of(url) ==
    LET pieces == split(rstrip(url, {"/"}), <<"/", "u", "s", "e", "r", "/">>)
    IN  split(pieces[Len(pieces)], <<"/">>)[1]

\* if st.button(...): the URL check, and the username taken from the URL
FindPersonaButton ==
    /\ pc = "idle"
    /\ IF ~StartsAt(profile_url, 1, UserPrefix)
       THEN /\ ui' = "error: Invalid URL"
            /\ pc' = "done"
            /\ UNCHANGED username
       ELSE /\ username' = username_of(profile_url)
            /\ pc' = "build_persona"
            /\ UNCHANGED ui
    /\ UNCHANGED <<profile_url, fetched, llm_traits, llm_response, parsed,
                   rendered, file_written, result>>

\* build_persona, up to the prompt: reading the submissions and comments
\* raises, or they hold no text, or they hold text. The first two print a
\* message and return None.
BuildPersonaFetch ==
    /\ pc = "build_persona"
    /\ \E outcome \in {"raised", "blank", "text"} :
         /\ fetched' = outcome
         /\ IF outcome = "text"
            THEN pc' = "query_llm" /\ UNCHANGED result
            ELSE pc' = "returned" /\ result' = "None"
    /\ UNCHANGED <<profile_url, username, llm_traits, llm_response, parsed,
                   rendered, file_written, ui>>

\* query_llm(prompt): the stripped content of the completion, or the error
\* sentinel when the call raises
QueryLLM ==
    /\ pc = "query_llm"
    /\ \/ \E reply \in LLMReplies :
            /\ llm_response' = completion_text(reply.content)
            /\ llm_traits' = reply.traits
       \/ \E message \in ErrorMessages :
            /\ llm_response' = error_sentinel(message)
            /\ llm_traits' = <<>>
    /\ pc' = "parse_llm_response"
    /\ UNCHANGED <<profile_url, username, fetched, parsed, rendered,
                   file_written, result, ui>>

\* parsed_data = parse_llm_response(llm_response); parsed_data["name"] = username.
\* An exception of parse_llm_response is caught nowhere: it ends the run of
\* the handler, and the page shows it.
ParseLLMResponse ==
    /\ pc = "parse_llm_response"
    /\ IF parse_llm_response_raises(llm_response)
       THEN /\ ui' = "OverflowError"
            /\ pc' = "done"
            /\ UNCHANGED parsed
       ELSE /\ parsed' = [f \in DOMAIN NotParsed |->
                            IF f = "name" THEN username
                            ELSE parse_llm_response(llm_response)[f]]
            /\ pc' = "render"
            /\ UNCHANGED ui
    /\ UNCHANGED <<profile_url, username, fetched, llm_traits, llm_response,
                   rendered, file_written, result>>

\* template.render(**parsed_data), the persona file written, and
\* return rendered, file_path. The template is a file of the deployment: the
\* text it renders to may be empty or not.
RenderAndWrite ==
    /\ pc = "render"
    /\ \E text \in {"empty", "text"} : rendered' = text
    /\ file_written' = TRUE
    /\ result' = "rendered, file_path"
    /\ pc' = "returned"
    /\ UNCHANGED <<profile_url, username, fetched, llm_traits, llm_response,
                   parsed, ui>>

\* result_text, filepath = build_persona(username), and the branch on
\* result_text. Unpacking None raises TypeError.
HandleResult ==
    /\ pc = "returned"
    /\ ui' = IF result = "None" THEN "TypeError"
             ELSE IF rendered = "text" THEN "success: Persona generated!"
             ELSE "error: Failed to generate persona."
    /\ pc' = "done"
    /\ UNCHANGED <<profile_url, username, fetched, llm_traits, llm_response,
                   parsed, rendered, file_written, result>>

Next ==
    \/ FindPersonaButton
    \/ BuildPersonaFetch
    \/ QueryLLM
    \/ ParseLLMResponse
    \/ RenderAndWrite
    \/ HandleResult

Spec == Init /\ [][Next]_vars

-----------------------------------------------------------------------------
(* Vocabulary of the properties. These definitions say what a result should *)
(* be from the text alone; they do not use the parser's operators.          *)

\* parse_llm_response has just returned its record, which no later step changes
AfterParse == pc = "render"

\* parse_llm_response has been called in this press of the button
ParseCalled == fetched = "text" /\ pc \in {"render", "returned", "done"}

Max(S) == CHOOSE x \in S : \A y \in S : x >= y

\* s without the characters of chars at its two ends
Trimmed(s, chars) ==
    LET keep == {i \in 1..Len(s) : s[i] \notin chars}
    IN  IF keep = {} THEN <<>> ELSE SubSeq(s, Min(keep), Max(keep))

\* s without its leading run of characters of chars
WithoutLeading(s, chars) ==
    LET keep == {i \in 1..Len(s) : s[i] \notin chars}
    IN  IF keep = {} THEN <<>> ELSE SubSeq(s, Min(keep), Len(s))

Occurs(text, lit) == \E i \in 1..Len(text) : StartsAt(text, i, lit)

Count(s, c) == Cardinality({i \in 1..Len(s) : s[i] = c})

\* The lines of a text: the pieces between its newlines, the empty piece
\* after a final newline left out.
LinesOf(s) ==
    LET cuts == {0} \cup {i \in 1..Len(s) : s[i] = "\n"} \cup {Len(s) + 1}
        cut(k) == CHOOSE c \in cuts : Cardinality({d \in cuts : d < c}) = k
        all == [k \in 1..(Cardinality(cuts) - 1) |-> SubSeq(s, cut(k - 1) + 1, cut(k) - 1)]
    IN  IF s = <<>> THEN <<>>
        ELSE IF s[Len(s)] = "\n" THEN SubSeq(all, 1, Len(all) - 1)
        ELSE all

NonBlank(line) == \E i \in 1..Len(line) : line[i] \notin Whitespace

\* The text between the first marker of the heading and the next line that
\* begins with "**" (the end of the text without one), trimmed; "" when the
\* marker does not occur.
SectionBetween(text, heading) ==
    LET m == Marker(heading)
        starts == {i \in 1..Len(text) : StartsAt(text, i, m)}
    IN  IF starts = {} THEN <<>>
        ELSE LET from == Min(starts) + Len(m)
                 nextHeadings == {k \in from..Len(text) :
                                    StartsAt(text, k, <<"\n", "*", "*">>)}
                 to == IF nextHeadings = {} THEN Len(text) ELSE Min(nextHeadings) - 1
             IN  Trimmed(SubSeq(text, from, to), Whitespace)

\* the field of the record each heading of the prompt fills
ScalarFields ==
    [ age |-> Age, occupation |-> Occupation, status |-> Status,
      location |-> Location, archetype |-> Archetype ]
ListFields ==
    [ motivations |-> Motivations, frustrations |-> Frustrations,
      behaviors |-> BehavioralHabits, goals |-> GoalsAndNeeds ]

\* the four axis pairs, in the order of the report, as the bars show them
AxisLabels ==
    << << <<"I", "N", "T", "R", "O", "V", "E", "R", "T", "E", "D">>,
          <<"E", "X", "T", "R", "O", "V", "E", "R", "T", "E", "D">> >>,
       << <<"I", "N", "T", "U", "I", "T", "I", "V", "E">>,
          <<"S", "E", "N", "S", "I", "N", "G">> >>,
       << <<"F", "E", "E", "L", "I", "N", "G">>,
          <<"T", "H", "I", "N", "K", "I", "N", "G">> >>,
       << <<"P", "E", "R", "C", "E", "I", "V", "I", "N", "G">>,
          <<"J", "U", "D", "G", "I", "N", "G">> >> >>

\* the cells of a bar: what stands between its "[" and its "]"
CellsOf(b) ==
    LET open == CHOOSE i \in 1..Len(b) : b[i] = "["
        close == CHOOSE i \in 1..Len(b) : b[i] = "]"
    IN  SubSeq(b, open + 1, close - 1)
FilledCells(b) == Count(CellsOf(b), FILLED)
UnfilledCells(b) == Count(CellsOf(b), "-")

\* The score the reply gives for the left label of axis i: that of the last
\* "<score>% <label>" clause with this label in any letter case, 0 without one.
ReportedScore(i) ==
    LET given == {k \in 1..Len(llm_traits) :
                    /\ Len(llm_traits[k]) = 2
                    /\ [j \in 1..Len(llm_traits[k][2]) |-> upper_char(llm_traits[k][2][j])]
                         = AxisLabels[i][1]}
    IN  IF given = {} THEN 0 ELSE llm_traits[Max(given)][1]

Bars == parsed.personality_bars

-----------------------------------------------------------------------------
(* C1 *)

\* C1: every scalar field is exactly the trimmed text between the first
\* marker of its heading and the next line that begins with "**" (or the end
\* of the text); a marker directly followed by the line of another heading
\* gives the empty string, never text of the following section.
C1_SectionIsTextBetweenMarkers ==
    AfterParse =>
        \A f \in DOMAIN ScalarFields :
            parsed[f] = SectionBetween(llm_response, ScalarFields[f])

-----------------------------------------------------------------------------
(* C2 *)

\* C2, the part about missing headings: after parse_llm_response, every field
\* whose heading marker does not occur in the response is empty (the empty
\* string or the empty sequence), and for the error sentinel of query_llm
\* every field is empty and each of the four bars shows 0 filled cells.
MissingHeadingsDefaultEmpty ==
    AfterParse =>
        /\ \A f \in DOMAIN ScalarFields :
              ~Occurs(llm_response, Marker(ScalarFields[f])) => parsed[f] = <<>>
        /\ \A f \in DOMAIN ListFields :
              ~Occurs(llm_response, Marker(ListFields[f])) => parsed[f] = <<>>
        /\ ~Occurs(llm_response, Marker(ShortQuote)) => parsed.quote = <<>>
        /\ \A message \in ErrorMessages :
              llm_response = error_sentinel(message) =>
                  /\ \A f \in DOMAIN ScalarFields \cup DOMAIN ListFields : parsed[f] = <<>>
                  /\ parsed.quote = <<>>
                  /\ Len(Bars) = 4
                  /\ \A i \in 1..4 : FilledCells(Bars[i]) = 0

\* C2: for every input string parse_llm_response returns a record and raises
\* no error, and the fields of the headings that do not occur are empty.
C2_NoErrorAndMissingHeadingsEmpty ==
    /\ ParseCalled => ui # "OverflowError"
    /\ MissingHeadingsDefaultEmpty

-----------------------------------------------------------------------------
(* C3 *)

\* The bars are exactly 4, in the order (INTROVERTED, EXTROVERTED),
\* (INTUITIVE, SENSING), (FEELING, THINKING), (PERCEIVING, JUDGING): bar i
\* starts with the left label of pair i, padded to 11 characters, and ends
\* with "] " and the right label of pair i.
FourBarsInAxisOrder(bars) ==
    /\ Len(bars) = 4
    /\ \A i \in 1..4 :
          LET b == bars[i]
              right == AxisLabels[i][2]
          IN  /\ Len(b) >= 13 + 2 + Len(right)
              /\ Trimmed(SubSeq(b, 1, 11), {" "}) = AxisLabels[i][1]
              /\ SubSeq(b, 12, 13) = <<" ", "[">>
              /\ SubSeq(b, Len(b) - Len(right) - 1, Len(b)) = <<"]", " ">> \o right

\* C3, for the inputs on which generate_personality_bars returns: 4 bars in
\* the fixed order, whatever the order of the clauses of the input.
BarsInAxisOrderWhenReturned == AfterParse => FourBarsInAxisOrder(Bars)

\* C3: for every input string generate_personality_bars returns exactly 4
\* bars, one per axis pair, in the fixed order.
C3_AlwaysFourBarsInAxisOrder == ParseCalled => FourBarsInAxisOrder(Bars)

-----------------------------------------------------------------------------
(* C4 *)

\* C4 as stated: in every bar the filled cells plus the unfilled cells are
\* exactly 20, for every score the clause pattern can match, scores above
\* 100 included.
C4_CellsAlwaysTwenty ==
    AfterParse =>
        \A i \in 1..Len(Bars) : FilledCells(Bars[i]) + UnfilledCells(Bars[i]) = 20

\* C4 as amended: the filled cells plus the unfilled cells of a bar are
\* exactly 20 for every score up to 102 (so for every percentage 0..100); for
\* a score above 102 the bar has more than 20 filled cells and no unfilled one.
C4_CellsTwentyUpTo102 ==
    AfterParse =>
        \A i \in 1..Len(Bars) :
            IF ReportedScore(i) <= 102
            THEN FilledCells(Bars[i]) + UnfilledCells(Bars[i]) = 20
            ELSE FilledCells(Bars[i]) > 20 /\ UnfilledCells(Bars[i]) = 0

\* a score of 103 has been rendered, as 21 filled cells
C4_Witness ==
    /\ AfterParse
    /\ \E i \in 1..Len(Bars) : ReportedScore(i) = 103 /\ FilledCells(Bars[i]) = 21
    /\ \E i \in 1..Len(Bars) : ReportedScore(i) = 80 /\ UnfilledCells(Bars[i]) = 4

-----------------------------------------------------------------------------
(* C5 *)

\* C5: for a Personality line of "<int>% <Label>" clauses with scores in
\* 0..100, the bar of each axis shows round(score / 100 * 20) filled cells,
\* score being the one given for the left label of the axis and 0 without one;
\* that count is (score + 2) div 5, the integer nearest to score / 5, never a
\* tie. In the end-to-end scenario the bars show 16, 6, 0 and 0 filled cells,
\* age is "27" and quote is "Just vibing" without its double quotes.
C5_FilledCellsAreRoundedScore ==
    AfterParse =>
        /\ \A i \in 1..Len(Bars) :
              ReportedScore(i) \in 0..100 =>
                  /\ FilledCells(Bars[i]) = (ReportedScore(i) + 2) \div 5
                  /\ 5 * FilledCells(Bars[i]) - ReportedScore(i) \in -2..2
        /\ llm_response = EndToEndReply =>
              /\ [i \in 1..4 |-> FilledCells(Bars[i])] = <<16, 6, 0, 0>>
              /\ parsed.age = <<"2", "7">>
              /\ parsed.quote = <<"J", "u", "s", "t", " ", "v", "i", "b", "i", "n", "g">>

\* the end-to-end scenario has been parsed
C5_Witness ==
    /\ AfterParse
    /\ llm_response = EndToEndReply
    /\ ReportedScore(1) = 80
    /\ FilledCells(Bars[1]) = 16
    /\ parsed.age = <<"2", "7">>

-----------------------------------------------------------------------------
(* C6 to C9: the list sections *)

\* the text extract_key_value_pairs and extract_bullet_list are given
SectionText(heading) == extract_section(llm_response, heading)

\* a line with the bullet characters, then the whitespace, removed at both ends
Normalised(line) == Trimmed(Trimmed(line, BulletChars), Whitespace)

\* the k-th smallest member of a set of numbers
Nth(S, k) == CHOOSE x \in S : Cardinality({y \in S : y < x}) = k - 1

\* the text after the last "(" with ONE trailing ")" removed
OneParenRemoved(after) ==
    IF after # <<>> /\ after[Len(after)] = ")"
    THEN SubSeq(after, 1, Len(after) - 1)
    ELSE after

FearLabel ==
    <<"F", "e", "a", "r", " ", "o", "f", " ", "f", "a", "i", "l", "u", "r", "e", " ", "(", "s", "e", "e", "n",
      " ", "i", "n", " ", "r", "e", "p", "e", "a", "t", "e", "d", " ", "s", "e", "l", "f", "-", "d", "o", "u",
      "b", "t">>
FearDetail == <<"n", "o", "t", "e", "d", " ", "t", "w", "i", "c", "e">>

\* C6 as stated: a line that contains both "(" and ")" is split at its
\* rightmost "(": the label is the trimmed text before it, the detail is the
\* text after it with one trailing ")" removed; a line without both becomes
\* (whole trimmed line, "").
C6_DetailDropsOneParen ==
    AfterParse =>
        LET lines == LinesOf(SectionText(Motivations)) IN
        \A i \in 1..Len(lines) :
            LET line == Normalised(lines[i])
                pair == parsed.motivations[i]
            IN  IF Count(line, "(") > 0 /\ Count(line, ")") > 0
                THEN LET k == Max({j \in 1..Len(line) : line[j] = "("})
                     IN  /\ pair[1] = Trimmed(SubSeq(line, 1, k - 1), Whitespace)
                         /\ pair[2] = OneParenRemoved(SubSeq(line, k + 1, Len(line)))
                ELSE pair = <<line, <<>>>>

\* C6 as amended: the i-th pair comes from the i-th line of the section, with
\* bullet characters and whitespace removed at both ends. If that line
\* contains both "(" and ")", it is split at its rightmost "(": the label is
\* the trimmed text before it (earlier parentheses kept), the detail is the
\* text after it with EVERY leading and trailing ")" removed. Otherwise the
\* pair is (line, ""). The line "Fear of failure (seen in repeated self-doubt
\* (noted twice))" gives the label "Fear of failure (seen in repeated
\* self-doubt" and the detail "noted twice".
C6_SplitAtLastParen ==
    AfterParse =>
        LET lines == LinesOf(SectionText(Motivations)) IN
        /\ Len(parsed.motivations) = Len(lines)
        /\ \A i \in 1..Len(lines) :
              LET line == Normalised(lines[i])
                  pair == parsed.motivations[i]
              IN  /\ IF Count(line, "(") > 0 /\ Count(line, ")") > 0
                     THEN LET k == Max({j \in 1..Len(line) : line[j] = "("})
                          IN  /\ pair[1] = Trimmed(SubSeq(line, 1, k - 1), Whitespace)
                              /\ pair[2] = Trimmed(SubSeq(line, k + 1, Len(line)), {")"})
                     ELSE pair = <<line, <<>>>>
                  /\ line = FearOfFailure => pair = <<FearLabel, FearDetail>>

\* the line of the split policy has been parsed, after a line without parentheses
C6_Witness ==
    /\ AfterParse
    /\ Len(parsed.motivations) = 2
    /\ parsed.motivations[1] = <<WantsApproval, <<>>>>
    /\ parsed.motivations[2] = <<FearLabel, FearDetail>>
    /\ LinesOf(SectionText(Motivations))[2] = FearOfFailure

\* C7: extract_key_value_pairs gives one pair per non-blank line of the
\* section and none for a blank line: the number of pairs is the number of
\* non-blank lines, and no pair has an empty label.
C7_OnePairPerNonBlankLine ==
    AfterParse =>
        \A f \in {"motivations", "frustrations", "behaviors"} :
            LET lines == LinesOf(SectionText(ListFields[f])) IN
            /\ Len(parsed[f]) = Cardinality({i \in 1..Len(lines) : NonBlank(lines[i])})
            /\ \A i \in 1..Len(parsed[f]) : parsed[f][i][1] # <<>>

\* C8: extract_bullet_list gives no empty entry: its entries are the lines of
\* the section with bullet characters and whitespace stripped, those that
\* are then empty dropped, in the order of the lines.
C8_NoEmptyBulletEntry ==
    AfterParse =>
        LET lines == LinesOf(SectionText(GoalsAndNeeds))
            kept == {i \in 1..Len(lines) : Normalised(lines[i]) # <<>>}
        IN  /\ \A k \in 1..Len(parsed.goals) : parsed.goals[k] # <<>>
            /\ Len(parsed.goals) = Cardinality(kept)
            /\ \A k \in 1..Cardinality(kept) :
                  k <= Len(parsed.goals) => parsed.goals[k] = Normalised(lines[Nth(kept, k)])

\* C9: the entry extract_bullet_list gives for a line is the line without its
\* LEADING run of bullet characters and without surrounding whitespace, so
\* that a "-" or a bullet that ends the line is kept.
C9_OnlyLeadingBulletsStripped ==
    AfterParse =>
        LET lines == LinesOf(SectionText(GoalsAndNeeds))
            kept == {i \in 1..Len(lines) : NonBlank(lines[i])}
        IN  /\ Len(parsed.goals) = Cardinality(kept)
            /\ \A k \in 1..Len(parsed.goals) :
                  parsed.goals[k]
                    = Trimmed(WithoutLeading(lines[Nth(kept, k)], BulletChars), Whitespace)

-----------------------------------------------------------------------------
(* C10 *)

\* C10: when build_persona cannot produce a persona (reading the posts and
\* comments raised, or they held no text), the handler ends showing "Failed
\* to generate persona.", without an exception and without a persona file;
\* the success state is reached only when build_persona returned a rendered
\* text and a file path.
C10_NoPersonaEndsInFailedState ==
    /\ (pc = "done" /\ fetched \in {"raised", "blank"}) =>
          /\ ui = "error: Failed to generate persona."
          /\ ~file_written
    /\ ui = "success: Persona generated!" =>
          /\ result = "rendered, file_path"
          /\ rendered = "text"

=============================================================================
